---- MODULE Spec2Model ----
(***************************************************************************)
(* Model of src/download_info.py: the two resumable download pipelines     *)
(*   download_map_info  - sequential cursor pagination with a pickled      *)
(*                        progress file (Spec)                             *)
(*   download_rankings  - chunked concurrent fetch with a pickled progress *)
(*                        file and a sleep throttle (SpecRank)             *)
(* A process may be killed at any step; what survives is the progress file *)
(* and the output file.                                                    *)
(***************************************************************************)
EXTENDS Integers, Sequences, FiniteSets, TLC

VARIABLES
    \* ---- download_map_info ----
    timeline,           \* the service's records' approved_date, in key order
    since_arg,          \* argument since_date_str of the call
    pcMap,              \* position of the process in download_map_info
    since_date_str,     \* local since_date_str
    map_progress,       \* local dict progress
    info_dicts,         \* local info_dicts (last decoded response)
    map_progress_file,  \* contents of progress_file, or NoFile
    map_outfile,        \* contents of outfile, or NoFile
    map_requests,       \* requests issued by the current run
    map_saw_empty,      \* the current run has received an empty page
    map_final_writes,   \* number of times outfile was written
    \* ---- download_rankings ----
    start_rank_arg,     \* argument start_rank of the call
    end_rank,           \* argument end_rank of the call
    pcRank,             \* position of the process in download_rankings
    rank_progress,      \* local dict progress
    loop_i,             \* loop variable i of the for loop
    progress_counter,   \* local progress_counter
    rs,                 \* the chunk's requests and what became of each
    start_time,         \* local start_time (a time.process_time() reading)
    process_time,       \* the process's CPU clock, time.process_time()
    last_sleep,         \* argument of the last time.sleep call
    rank_progress_file, \* contents of progress_file, or NoFile
    rank_outfile,       \* contents of outfile, or NoFile
    rank_final_writes,  \* number of times outfile was written
    since_dispatch,     \* wall-clock time since requests last went out (capped)
    dispatch_gap,       \* wall-clock time between the last two dispatches
    run_dispatches      \* dispatches of requests by the current run

mapVars == << timeline, since_arg, pcMap, since_date_str, map_progress,
              info_dicts, map_progress_file, map_outfile, map_requests,
              map_saw_empty, map_final_writes >>

rankVars == << start_rank_arg, end_rank, pcRank, rank_progress, loop_i,
               progress_counter, rs, start_time, process_time, last_sleep,
               rank_progress_file, rank_outfile, rank_final_writes,
               since_dispatch, dispatch_gap, run_dispatches >>

vars == << mapVars, rankVars >>

----------------------------------------------------------------------------
(* Bounds of the model *)

MaxTimeline == 4      \* longest timeline the service holds
MaxPages == 5         \* most pages a progress dict is allowed to accumulate

MaxIds == 5           \* longest list scrape_rankings returns
MaxChunkWall == 2     \* longest wall-clock time of one chunk's fetches
MaxClock == 1         \* largest CPU clock reading when a chunk starts
MaxRestartDelay == 1  \* longest pause before a killed run is restarted
MaxStartRank == 1     \* largest start_rank argument

(* Program constants (scaled) *)

API_MAX_RESULTS == 2  \* page cap of get_beatmaps
MAX_RANK == 5         \* the 10000 of the assert on start_rank, end_rank
LONG_RANK == 9        \* the same limit, for runs with several saves
BATCH_REQUESTS == 2   \* chunk size
BATCH_INTERVAL == 1   \* seconds between chunk dispatches
PROGRESS_FREQ == 2    \* how often progress is saved

HoursPerDay == 24
MinutesPerHour == 60
SecondsPerMinute == 60

\* a file is << >> when absent and << contents >> when written
NoFile == << >>
\* progress has no "since" key before the first write
NoSince == << >>

----------------------------------------------------------------------------
(* Timestamps.  A "%Y-%m-%d %H:%M:%S" string is the tuple of its fields    *)
(* <<day, hour, minute, second>> (the date part is a day number); a        *)
(* date-only string such as the default "2007-10-07" is <<day>>.           *)

strptime(s) ==
    ((s[1] * HoursPerDay + s[2]) * MinutesPerHour + s[3]) * SecondsPerMinute + s[4]

strftime(n) ==
    << n \div (HoursPerDay * MinutesPerHour * SecondsPerMinute),
       (n \div (MinutesPerHour * SecondsPerMinute)) % HoursPerDay,
       (n \div SecondsPerMinute) % MinutesPerHour,
       n % SecondsPerMinute >>

\* how the service reads the "since" parameter: a date alone is its midnight
ServiceSince(s) ==
    IF Len(s) = 1 THEN strptime(<< s[1], 0, 0, 0 >>) ELSE strptime(s)

Keys == { << 1, 10, 0, 0 >>, << 1, 10, 0, 1 >>, << 2, 0, 0, 0 >> }

StartCursors == { << 1 >>, << 1, 10, 0, 0 >> }

IsSorted(tl) ==
    \A i \in 1..(Len(tl) - 1) : strptime(tl[i]) <= strptime(tl[i + 1])

Timelines ==
    { tl \in UNION { [1..n -> Keys] : n \in 0..MaxTimeline } : IsSorted(tl) }

Record(tl, i) == [beatmap_id |-> i, approved_date |-> tl[i]]

----------------------------------------------------------------------------
(* The get_beatmaps endpoint: up to API_MAX_RESULTS records whose          *)
(* approved_date is strictly after "since", in key order.                  *)

RECURSIVE TakeAfter_Inclusive(_, _, _, _)
TakeAfter_Inclusive(tl, i, since, room) ==
    IF i > Len(tl) \/ room = 0 THEN << >>
    ELSE IF strptime(tl[i]) >= since
         THEN << Record(tl, i) >>
                  \o TakeAfter_Inclusive(tl, i + 1, since, room - 1)
         ELSE TakeAfter_Inclusive(tl, i + 1, since, room)

RECURSIVE TakeAfter(_, _, _, _)
TakeAfter(tl, i, since, room) ==
    IF i > Len(tl) \/ room = 0 THEN << >>
    ELSE IF strptime(tl[i]) > since
         THEN << Record(tl, i) >> \o TakeAfter(tl, i + 1, since, room - 1)
         ELSE TakeAfter(tl, i + 1, since, room)

GetBeatmaps(tl, since) == TakeAfter(tl, 1, ServiceSince(since), API_MAX_RESULTS)

(* lines 120-126: the cursor of the next request *)
NextSince_NoNudge(page) ==
    strftime(strptime(page[Len(page)].approved_date))

NextSince(page) ==
    LET end_date == strptime(page[Len(page)].approved_date)
    IN  strftime(IF Len(page) = API_MAX_RESULTS THEN end_date - 1 ELSE end_date)

EmptyProgress == [json_list |-> << >>, since |-> NoSince]

----------------------------------------------------------------------------
(* download_map_info *)

MapInit ==
    /\ timeline \in Timelines
    /\ since_arg \in StartCursors
    /\ pcMap = "idle"
    /\ since_date_str = since_arg
    /\ map_progress = EmptyProgress
    /\ info_dicts = << >>
    /\ map_progress_file = NoFile
    /\ map_outfile = NoFile
    /\ map_requests = 0
    /\ map_saw_empty = FALSE
    /\ map_final_writes = 0

(* lines 64-79: load or init progress structures *)
MapStart ==
    /\ UNCHANGED rankVars
    /\ pcMap \in {"idle", "aborted"}
    /\ IF map_progress_file # NoFile
       THEN /\ map_progress' = map_progress_file[1]
            /\ since_date_str' = map_progress_file[1].since
       ELSE /\ map_progress' = EmptyProgress
            /\ since_date_str' = since_arg
    /\ info_dicts' = << >>
    /\ map_requests' = 0
    /\ map_saw_empty' = FALSE
    /\ pcMap' = "request"
    /\ UNCHANGED << timeline, since_arg, map_progress_file, map_outfile,
                    map_final_writes >>

(* lines 83-89: session.get or r.json() raises, or the payload is an error *)
(* object and the assert / raise ends the run; nothing is written          *)
FetchAbort_WritesProgress ==
    /\ pcMap' = "aborted"
    /\ map_progress' = [map_progress EXCEPT !.json_list = Append(@, << >>),
                                            !.since = since_date_str]
    /\ map_progress_file' = << map_progress' >>
    /\ UNCHANGED << info_dicts, map_saw_empty >>

FetchAbort ==
    /\ pcMap' = "aborted"
    /\ UNCHANGED << info_dicts, map_progress, map_saw_empty,
                    map_progress_file >>

(* line 91: an empty page breaks out of the loop *)
OnEmptyPage_Continues ==
    /\ pcMap' = "request"
    /\ map_saw_empty' = TRUE
    /\ UNCHANGED << map_progress, map_progress_file >>

OnEmptyPage ==
    /\ pcMap' = "final"
    /\ map_saw_empty' = TRUE
    /\ UNCHANGED << map_progress, map_progress_file >>

(* line 93: the page is appended to progress["json_list"] *)
OnPage_Replaces(page) ==
    /\ Len(map_progress.json_list) < MaxPages
    /\ map_progress' = [map_progress EXCEPT !.json_list = << page >>]
    /\ pcMap' = "persist"
    /\ UNCHANGED << map_saw_empty, map_progress_file >>

OnPage(page) ==
    /\ Len(map_progress.json_list) < MaxPages
    /\ map_progress' = [map_progress EXCEPT !.json_list = Append(@, page)]
    /\ pcMap' = "persist"
    /\ UNCHANGED << map_saw_empty, map_progress_file >>

(* lines 82-93: one request, its checks, the break and the append *)
MapFetch ==
    /\ UNCHANGED rankVars
    /\ pcMap = "request"
    /\ map_requests' = map_requests + 1
    /\ \E outcome \in {"json", "error", "raise"} :
        IF outcome # "json"
        THEN FetchAbort
        ELSE LET page == GetBeatmaps(timeline, since_date_str) IN
             /\ info_dicts' = page
             /\ IF page = << >> THEN OnEmptyPage ELSE OnPage(page)
    /\ UNCHANGED << timeline, since_arg, since_date_str, map_outfile,
                    map_final_writes >>

(* lines 108-113: write out progress *)
MapPersist ==
    /\ UNCHANGED rankVars
    /\ pcMap = "persist"
    /\ map_progress' = [map_progress EXCEPT !.since = since_date_str]
    /\ map_progress_file' = << map_progress' >>
    /\ pcMap' = "advance"
    /\ UNCHANGED << timeline, since_arg, since_date_str, info_dicts,
                    map_outfile, map_requests, map_saw_empty,
                    map_final_writes >>

(* lines 120-126: compute the cursor of the next request *)
MapAdvance ==
    /\ UNCHANGED rankVars
    /\ pcMap = "advance"
    /\ since_date_str' = NextSince(info_dicts)
    /\ pcMap' = "request"
    /\ UNCHANGED << timeline, since_arg, map_progress, info_dicts,
                    map_progress_file, map_outfile, map_requests,
                    map_saw_empty, map_final_writes >>

(* lines 129-135: final write *)
MapFinal ==
    /\ UNCHANGED rankVars
    /\ pcMap = "final"
    /\ map_outfile' = << map_progress.json_list >>
    /\ map_final_writes' = map_final_writes + 1
    /\ pcMap' = "done"
    /\ UNCHANGED << timeline, since_arg, since_date_str, map_progress,
                    info_dicts, map_progress_file, map_requests,
                    map_saw_empty >>

(* the process is killed; its memory is lost, the files stay *)
MapKill ==
    /\ UNCHANGED rankVars
    /\ pcMap \in {"request", "persist", "advance", "final"}
    /\ pcMap' = "idle"
    /\ since_date_str' = since_arg
    /\ map_progress' = EmptyProgress
    /\ info_dicts' = << >>
    /\ map_requests' = 0
    /\ map_saw_empty' = FALSE
    /\ UNCHANGED << timeline, since_arg, map_progress_file, map_outfile,
                    map_final_writes >>

----------------------------------------------------------------------------
(* download_rankings *)

Min(a, b) == IF a <= b THEN a ELSE b
Max(a, b) == IF a >= b THEN a ELSE b

\* progress has no "start_rank" key before the first loop iteration
NoRank == -1

\* wall-clock spans are tracked up to GapCap; longer ones read GapCap
GapCap == BATCH_INTERVAL + 1
Elapse(t, d) == Min(t + d, GapCap)

Outcomes == {"ok", "error", "failed", "undecodable"}

FreshRankProgress == [user_ids |-> << >>, json_list |-> << >>,
                      start_rank |-> NoRank]

(* line 210: progress["user_ids"][i:i+BATCH_REQUESTS] *)
Slice(ids, from, to) == SubSeq(ids, from + 1, Min(to, Len(ids)))

(* lines 212-215: one request per identifier of the slice *)
Requests(ids) == [k \in 1..Len(ids) |-> [user_id |-> ids[k], outcome |-> "pending"]]

(* lines 220-221 with grequests.map: the responses in request order; r.json() *)
(* of an error payload is appended like any other, r.json() of an          *)
(* undecodable body raises; a request that failed in transport is, by the  *)
(* library version, left out of the list or present as None, whose .json() *)
(* raises.  Result: what was appended and whether the loop raised.         *)
RECURSIVE CollectFrom(_, _, _)
CollectFrom(reqs, k, drops) ==
    IF k > Len(reqs) THEN [appended |-> << >>, raised |-> FALSE]
    ELSE LET r == reqs[k] IN
         IF r.outcome \in {"ok", "error"}
         THEN LET rest == CollectFrom(reqs, k + 1, drops) IN
              [appended |-> << [user_id |-> r.user_id, json |-> r.outcome] >>
                              \o rest.appended,
               raised |-> rest.raised]
         ELSE IF r.outcome = "failed" /\ drops
         THEN CollectFrom(reqs, k + 1, drops)
         ELSE [appended |-> << >>, raised |-> TRUE]

(* line 223: the condition under which progress is saved *)
SaveDue(counter) == counter > 0 /\ counter % PROGRESS_FREQ = 0

(* line 233: the argument of time.sleep *)
SleepAmount_NoFloor(start, now) == start + BATCH_INTERVAL - now

SleepAmount_NoStart(start, now) == Max(0, BATCH_INTERVAL - now)

SleepAmount(start, now) == Max(0, start + BATCH_INTERVAL - now)

(* line 197: the arguments pass the assert; nothing has run yet *)
RankInitUpTo(maxRank) ==
    /\ start_rank_arg \in 0..Min(MaxStartRank, maxRank - 1)
    /\ end_rank \in (start_rank_arg + 1)..maxRank
    /\ pcRank = "idle"
    /\ rank_progress = FreshRankProgress
    /\ loop_i = 0
    /\ progress_counter = 0
    /\ rs = << >>
    /\ start_time = 0
    /\ process_time = 0
    /\ last_sleep = 0
    /\ rank_progress_file = NoFile
    /\ rank_outfile = NoFile
    /\ rank_final_writes = 0
    /\ since_dispatch = GapCap
    /\ dispatch_gap = GapCap
    /\ run_dispatches = 0

RankInit == RankInitUpTo(MAX_RANK)

(* lines 186-206: load the progress file, or scrape the identifiers; the   *)
(* run starts one of delays after the last one ended                       *)
RankStartAfter(delays) ==
    /\ UNCHANGED mapVars
    /\ pcRank \in {"idle", "aborted"}
    /\ IF rank_progress_file # NoFile
       THEN /\ rank_progress' = rank_progress_file[1]
            /\ loop_i' = rank_progress_file[1].start_rank
       ELSE /\ \E n \in 0..MaxIds :
                 rank_progress' =
                     [FreshRankProgress EXCEPT !.user_ids = [k \in 1..n |-> k]]
            /\ loop_i' = start_rank_arg
    /\ progress_counter' = 0
    /\ rs' = << >>
    /\ start_time' = 0
    /\ process_time' = 0
    /\ last_sleep' = 0
    /\ run_dispatches' = 0
    /\ \E d \in delays : since_dispatch' = Elapse(since_dispatch, d)
    /\ pcRank' = "loop"
    /\ UNCHANGED << start_rank_arg, end_rank, rank_progress_file,
                    rank_outfile, rank_final_writes, dispatch_gap >>

RankStart == RankStartAfter(0..MaxRestartDelay)

(* lines 207-217 and the sending half of grequests.map: the next value of  *)
(* the range, the chunk's requests, the clock reading (one of readings),   *)
(* the dispatch                                                            *)
RankDispatchAt_Pipelined(readings) ==
    /\ UNCHANGED mapVars
    /\ pcRank \in {"loop", "fetching"}
    /\ LET at == IF pcRank = "loop" THEN loop_i ELSE loop_i + BATCH_REQUESTS
       IN  /\ at < end_rank
           /\ loop_i' = at
           /\ rank_progress' = [rank_progress EXCEPT !.start_rank = at]
           /\ rs' = Requests(Slice(rank_progress.user_ids, at,
                                   at + BATCH_REQUESTS))
    /\ \E t \in readings :
         /\ start_time' = t
         /\ process_time' = t
    /\ IF rs' # << >>
       THEN /\ dispatch_gap' = since_dispatch
            /\ since_dispatch' = 0
            /\ run_dispatches' = run_dispatches + 1
       ELSE UNCHANGED << dispatch_gap, since_dispatch, run_dispatches >>
    /\ pcRank' = "fetching"
    /\ UNCHANGED << start_rank_arg, end_rank, progress_counter, last_sleep,
                    rank_progress_file, rank_outfile, rank_final_writes >>

RankDispatchAt(readings) ==
    /\ UNCHANGED mapVars
    /\ pcRank = "loop"
    /\ loop_i < end_rank
    /\ rank_progress' = [rank_progress EXCEPT !.start_rank = loop_i]
    /\ rs' = Requests(Slice(rank_progress.user_ids, loop_i, loop_i + BATCH_REQUESTS))
    /\ \E t \in readings :
         /\ start_time' = t
         /\ process_time' = t
    /\ IF rs' # << >>                  \* requests go out now
       THEN /\ dispatch_gap' = since_dispatch
            /\ since_dispatch' = 0
            /\ run_dispatches' = run_dispatches + 1
       ELSE UNCHANGED << dispatch_gap, since_dispatch, run_dispatches >>
    /\ pcRank' = "fetching"
    /\ UNCHANGED << start_rank_arg, end_rank, loop_i, progress_counter, last_sleep,
                    rank_progress_file, rank_outfile, rank_final_writes >>

RankDispatch == RankDispatchAt(0..MaxClock)

(* inside grequests.map: one of the concurrent requests ends *)
RankResponse ==
    /\ UNCHANGED mapVars
    /\ pcRank = "fetching"
    /\ \E k \in 1..Len(rs) :
         /\ rs[k].outcome = "pending"
         /\ \E o \in Outcomes : rs' = [rs EXCEPT ![k].outcome = o]
    /\ UNCHANGED << start_rank_arg, end_rank, pcRank, rank_progress, loop_i,
                    progress_counter, start_time, process_time, last_sleep,
                    rank_progress_file, rank_outfile, rank_final_writes,
                    since_dispatch, dispatch_gap, run_dispatches >>

(* grequests.map returns once every request has ended *)
RankJoin_NoWait ==
    /\ UNCHANGED mapVars
    /\ pcRank = "fetching"
    /\ pcRank' = "collect"
    /\ UNCHANGED << start_rank_arg, end_rank, rank_progress, loop_i,
                    progress_counter, rs, start_time, process_time,
                    last_sleep, rank_progress_file, rank_outfile,
                    rank_final_writes, since_dispatch, dispatch_gap,
                    run_dispatches >>

RankJoin ==
    /\ UNCHANGED mapVars
    /\ pcRank = "fetching"
    /\ \A k \in 1..Len(rs) : rs[k].outcome # "pending"
    /\ pcRank' = "collect"
    /\ UNCHANGED << start_rank_arg, end_rank, rank_progress, loop_i,
                    progress_counter, rs, start_time, process_time,
                    last_sleep, rank_progress_file, rank_outfile,
                    rank_final_writes, since_dispatch, dispatch_gap,
                    run_dispatches >>

(* lines 220-221: store downloaded JSON *)
RankCollect ==
    /\ UNCHANGED mapVars
    /\ pcRank = "collect"
    /\ \E drops \in BOOLEAN :
         LET got == CollectFrom(rs, 1, drops) IN
         /\ rank_progress' =
               [rank_progress EXCEPT !.json_list = @ \o got.appended]
         /\ pcRank' = IF got.raised THEN "aborted" ELSE "save"
    /\ UNCHANGED << start_rank_arg, end_rank, loop_i, progress_counter, rs,
                    start_time, process_time, last_sleep, rank_progress_file,
                    rank_outfile, rank_final_writes, since_dispatch,
                    dispatch_gap, run_dispatches >>

(* lines 223-229: save progress when due, count the chunk *)
RankSave ==
    /\ UNCHANGED mapVars
    /\ pcRank = "save"
    /\ IF SaveDue(progress_counter)
       THEN rank_progress_file' = << rank_progress >>
       ELSE UNCHANGED rank_progress_file
    /\ progress_counter' = progress_counter + 1
    /\ pcRank' = "sleep"
    /\ UNCHANGED << start_rank_arg, end_rank, rank_progress, loop_i, rs,
                    start_time, process_time, last_sleep, rank_outfile,
                    rank_final_writes, since_dispatch, dispatch_gap,
                    run_dispatches >>

(* line 233: the throttle, then the next value of the range.  Since the   *)
(* reading of start_time the chunk took w of wall-clock time, of which the *)
(* process was on the CPU for c; the sleep itself takes wall-clock time.   *)
RankSleepFor(walls) ==
    /\ UNCHANGED mapVars
    /\ pcRank = "sleep"
    /\ \E w \in walls : \E c \in 0..w :
         /\ process_time' = start_time + c
         /\ last_sleep' = SleepAmount(start_time, process_time')
         /\ IF last_sleep' < 0           \* time.sleep raises ValueError
            THEN /\ pcRank' = "aborted"
                 /\ since_dispatch' = Elapse(since_dispatch, w)
                 /\ UNCHANGED << loop_i, rs >>
            ELSE /\ pcRank' = "loop"
                 /\ since_dispatch' = Elapse(since_dispatch, w + last_sleep')
                 /\ loop_i' = loop_i + BATCH_REQUESTS
                 /\ rs' = << >>
    /\ UNCHANGED << start_rank_arg, end_rank, rank_progress, progress_counter,
                    start_time, rank_progress_file, rank_outfile,
                    rank_final_writes, dispatch_gap, run_dispatches >>

RankSleep == RankSleepFor(0..MaxChunkWall)

(* lines 236-239: the range is exhausted; final write *)
RankFinal ==
    /\ UNCHANGED mapVars
    /\ pcRank = "loop"
    /\ loop_i >= end_rank
    /\ rank_outfile' = << rank_progress.json_list >>
    /\ rank_final_writes' = rank_final_writes + 1
    /\ pcRank' = "done"
    /\ UNCHANGED << start_rank_arg, end_rank, rank_progress, loop_i,
                    progress_counter, rs, start_time, process_time,
                    last_sleep, rank_progress_file, since_dispatch,
                    dispatch_gap, run_dispatches >>

(* the process is killed; its memory is lost, the files stay *)
RankKill ==
    /\ UNCHANGED mapVars
    /\ pcRank \in {"loop", "fetching", "collect", "save", "sleep"}
    /\ pcRank' = "idle"
    /\ rank_progress' = FreshRankProgress
    /\ loop_i' = 0
    /\ progress_counter' = 0
    /\ rs' = << >>
    /\ start_time' = 0
    /\ process_time' = 0
    /\ last_sleep' = 0
    /\ run_dispatches' = 0
    /\ UNCHANGED << start_rank_arg, end_rank, rank_progress_file,
                    rank_outfile, rank_final_writes, since_dispatch,
                    dispatch_gap >>

----------------------------------------------------------------------------
(* The two pipelines never run together: each specification runs one and   *)
(* leaves the other where it was before its call.                          *)

MapIdle ==
    /\ timeline = << >>
    /\ since_arg = << 1 >>
    /\ pcMap = "idle"
    /\ since_date_str = << 1 >>
    /\ map_progress = EmptyProgress
    /\ info_dicts = << >>
    /\ map_progress_file = NoFile
    /\ map_outfile = NoFile
    /\ map_requests = 0
    /\ map_saw_empty = FALSE
    /\ map_final_writes = 0

RankIdle ==
    /\ RankInit
    /\ start_rank_arg = 0
    /\ end_rank = MAX_RANK

Init == MapInit /\ RankIdle

Next ==
    \/ MapStart
    \/ MapFetch
    \/ MapPersist
    \/ MapAdvance
    \/ MapFinal
    \/ MapKill

Spec == Init /\ [][Next]_vars

InitRank == MapIdle /\ RankInit

NextRank ==
    \/ RankStart
    \/ RankDispatch
    \/ RankResponse
    \/ RankJoin
    \/ RankCollect
    \/ RankSave
    \/ RankSleep
    \/ RankFinal
    \/ RankKill

SpecRank == InitRank /\ [][NextRank]_vars

(* download_rankings over ranges long enough for several saves of the     *)
(* progress file; what the clocks read does not bear on the data, so every *)
(* chunk is taken to be instantaneous                                      *)
RankStartNow == RankStartAfter({0})

RankDispatchNow == RankDispatchAt({0})

RankSleepNow == RankSleepFor({0})

InitRankLong == MapIdle /\ RankInitUpTo(LONG_RANK)

NextRankLong ==
    \/ RankStartNow
    \/ RankDispatchNow
    \/ RankResponse
    \/ RankJoin
    \/ RankCollect
    \/ RankSave
    \/ RankSleepNow
    \/ RankFinal
    \/ RankKill

SpecRankLong == InitRankLong /\ [][NextRankLong]_vars

(* one call of either pipeline *)
InitEither == (MapInit /\ RankIdle) \/ InitRankLong

NextEither ==
    \/ RankIdle /\ Next
    \/ MapIdle /\ NextRankLong

SpecEither == InitEither /\ [][NextEither]_vars

(* a process that reached the final write and is not killed performs it *)
SpecFair == Spec /\ WF_vars(MapFinal)

----------------------------------------------------------------------------
(* Reference: the pages of one uninterrupted, error-free run from cursor   *)
(* (lines 81-126 iterated); fuel cuts a run that does not end.             *)

RECURSIVE Paginate(_, _, _)
Paginate(tl, cursor, fuel) ==
    LET page == GetBeatmaps(tl, cursor) IN
    IF page = << >> \/ fuel = 0 THEN << >>
    ELSE << page >> \o Paginate(tl, NextSince(page), fuel - 1)

Uninterrupted == Paginate(timeline, since_arg, MaxPages + 1)

RecordSet(pages) ==
    UNION { { pages[i][j] : j \in 1..Len(pages[i]) } : i \in 1..Len(pages) }

Count(r, pages) ==
    Cardinality({ ij \in (1..Len(pages)) \X (1..API_MAX_RESULTS) :
                    /\ ij[2] <= Len(pages[ij[1]])
                    /\ pages[ij[1]][ij[2]] = r })

\* the approved_date at which a full page was cut
BoundaryDates(pages) ==
    { pages[i][Len(pages[i])].approved_date :
        i \in { k \in 1..Len(pages) : Len(pages[k]) = API_MAX_RESULTS } }

WellFormed(s) ==
    /\ Len(s) = 4
    /\ s[1] >= 0
    /\ s[2] \in 0..(HoursPerDay - 1)
    /\ s[3] \in 0..(MinutesPerHour - 1)
    /\ s[4] \in 0..(SecondsPerMinute - 1)

----------------------------------------------------------------------------
(* Claims about download_map_info *)

\* C1: a run that was killed and restarted from the progress file any number
\* of times writes a final output holding the same set of records as one
\* uninterrupted run from the same start cursor, and every record whose number
\* of copies differs between the two has the approved_date at which a full
\* page was cut.
C1_ResumeEquivalence ==
    (pcMap = "done" /\ Len(Uninterrupted) <= MaxPages) =>
        /\ RecordSet(map_outfile[1]) = RecordSet(Uninterrupted)
        /\ \A r \in RecordSet(map_outfile[1]) :
              Count(r, map_outfile[1]) # Count(r, Uninterrupted) =>
                  r.approved_date \in BoundaryDates(map_outfile[1])

\* the half of C1 that the code keeps: the record sets agree
ResumeSameRecordSet ==
    (pcMap = "done" /\ Len(Uninterrupted) <= MaxPages) =>
        RecordSet(map_outfile[1]) = RecordSet(Uninterrupted)

\* C2: when the request for page k fails (error payload or transport
\* failure) the run aborts without writing the progress file or the output
\* file; the stored progress is the one written at the end of page k-1
\* (none at all when no page was ever stored) and holds no page k.
C2_FatalAbortKeepsCheckpoint ==
    /\ [][(pcMap = "request" /\ pcMap' = "aborted") =>
             /\ map_progress_file' = map_progress_file
             /\ map_outfile' = map_outfile
             /\ map_progress' = map_progress]_vars
    /\ [](pcMap = "aborted" =>
             IF map_progress.json_list = << >>
             THEN map_progress_file = NoFile
             ELSE map_progress_file = << map_progress >>)

C2_Witness ==
    /\ pcMap = "aborted"
    /\ map_requests >= 2
    /\ map_progress_file # NoFile
    /\ Len(map_progress_file[1].json_list) >= 2

\* C3: after a non-empty page whose last record has approved_date T, the
\* cursor of the next request is the timestamp one second before T when the
\* page holds API_MAX_RESULTS records, and T itself when it holds fewer.
C3_NextCursorRule ==
    [][(pcMap = "advance" /\ pcMap' = "request") =>
          LET T == info_dicts[Len(info_dicts)].approved_date IN
          /\ WellFormed(since_date_str')
          /\ IF Len(info_dicts) = API_MAX_RESULTS
             THEN strptime(since_date_str') = strptime(T) - 1
             ELSE since_date_str' = T]_vars

C3_Witness ==
    /\ pcMap = "request"
    /\ map_requests > 0
    /\ Len(info_dicts) = API_MAX_RESULTS
    /\ info_dicts[Len(info_dicts)].approved_date = << 2, 0, 0, 0 >>
    /\ since_date_str = << 1, 23, 59, 59 >>

\* C4: the first empty page ends the loop: the step that receives it appends
\* nothing, after it the run issues no request, appends no page and writes
\* no progress, and unless the process is killed it writes the final output,
\* which holds the accumulated pages.
C4_Exhaustion ==
    /\ [](map_saw_empty => pcMap \in {"final", "done"})
    /\ [](pcMap = "done" =>
             map_saw_empty /\ map_outfile = << map_progress.json_list >>)
    /\ [][map_saw_empty' =>
             /\ map_progress' = map_progress
             /\ map_progress_file' = map_progress_file
             /\ (map_saw_empty => map_requests' = map_requests)]_vars
    /\ (map_saw_empty ~> (pcMap = "done" \/ ~map_saw_empty))

C4_Witness ==
    /\ pcMap = "done"
    /\ map_saw_empty
    /\ Len(map_progress.json_list) >= 2
    /\ map_outfile = << map_progress.json_list >>

----------------------------------------------------------------------------
(* Claims about download_rankings *)

ChunkIds == [k \in 1..Len(rs) |-> rs[k].user_id]

\* C5: the chunks are the consecutive slices of BATCH_REQUESTS identifiers
\* (the last one shorter), and the positions stored by successive writes of
\* the progress file start at the first position, advance by BATCH_REQUESTS
\* and, for a run from rank 0 over a list of end_rank identifiers, end at the
\* length of the list when the run completes.
C5_BatchChunking ==
    /\ [](pcRank \in {"fetching", "collect"} =>
             ChunkIds = Slice(rank_progress.user_ids, rank_progress.start_rank,
                              rank_progress.start_rank + BATCH_REQUESTS))
    /\ [][rank_progress_file' # rank_progress_file =>
             rank_progress_file'[1].start_rank =
                 IF rank_progress_file = NoFile
                 THEN start_rank_arg
                 ELSE Min(rank_progress_file[1].start_rank + BATCH_REQUESTS,
                          Len(rank_progress_file[1].user_ids))]_vars
    /\ []((/\ pcRank = "done"
            /\ start_rank_arg = 0
            /\ Len(rank_progress.user_ids) = end_rank) =>
             /\ rank_progress_file # NoFile
             /\ rank_progress_file[1].start_rank =
                    Len(rank_progress_file[1].user_ids))

\* the half of C5 that the code keeps: every chunk is the slice of
\* BATCH_REQUESTS identifiers at the position of its iteration
ChunksAreSlices ==
    pcRank \in {"fetching", "collect"} =>
        /\ ChunkIds = Slice(rank_progress.user_ids, loop_i,
                            loop_i + BATCH_REQUESTS)
        /\ rank_progress.start_rank = loop_i
        /\ (loop_i - rank_progress.start_rank) % BATCH_REQUESTS = 0

\* C6 as stated: between any two successive dispatches, of the same run or
\* of a run and its restart, at least BATCH_INTERVAL of wall-clock time
\* elapses.
C6_RateCeilingAcrossRestarts ==
    /\ dispatch_gap >= BATCH_INTERVAL
    /\ Len(rs) <= BATCH_REQUESTS

\* C6 amended: between two successive dispatches of one run at least
\* BATCH_INTERVAL of wall-clock time elapses, and a dispatch issues at most
\* BATCH_REQUESTS requests.
C6_RateCeilingWithinRun ==
    /\ run_dispatches >= 2 => dispatch_gap >= BATCH_INTERVAL
    /\ Len(rs) <= BATCH_REQUESTS

C6_Witness ==
    /\ pcRank = "fetching"
    /\ run_dispatches >= 2
    /\ dispatch_gap = BATCH_INTERVAL
    /\ Len(rs) = BATCH_REQUESTS

C7_WitnessShort ==
    /\ pcRank = "loop"
    /\ run_dispatches >= 1
    /\ start_time > 0
    /\ process_time - start_time < BATCH_INTERVAL
    /\ last_sleep = BATCH_INTERVAL - (process_time - start_time)
    /\ last_sleep > 0

\* C8: each pipeline writes its final output at most once and only on full
\* completion: download_map_info after an empty page, download_rankings when
\* the position equals the length of the (non-empty) identifier list.
C8_FinalOutputOnce ==
    /\ map_final_writes <= 1
    /\ (map_outfile # NoFile => pcMap = "done" /\ map_saw_empty)
    /\ rank_final_writes <= 1
    /\ (rank_outfile # NoFile =>
           /\ pcRank = "done"
           /\ (rank_progress.user_ids # << >> =>
                  rank_progress.start_rank = Len(rank_progress.user_ids)))

\* the part of C8 that the code keeps
FinalOutputOnlyAtEnd ==
    /\ map_final_writes <= 1
    /\ (map_outfile # NoFile => pcMap = "done" /\ map_saw_empty)
    /\ (map_outfile = NoFile => map_final_writes = 0)
    /\ rank_final_writes <= 1
    /\ (rank_outfile # NoFile => pcRank = "done" /\ loop_i >= end_rank)
    /\ (rank_outfile = NoFile => rank_final_writes = 0)

Answered(r) == r.outcome \in {"ok", "error"}

AsResult(r) == [user_id |-> r.user_id, json |-> r.outcome]

\* C9: when a fetch of the chunk failed in transport or returned an
\* undecodable body, collecting the chunk appends the results of the other
\* identifiers, in order, and the run goes on to the save and the next chunk.
C9_TransientFailureSkipped ==
    [][(/\ pcRank = "collect"
        /\ pcRank' # "idle"
        /\ \E k \in 1..Len(rs) : rs[k].outcome \in {"failed", "undecodable"})
       =>
          LET others == SelectSeq(rs, Answered) IN
          /\ pcRank' = "save"
          /\ rank_progress'.json_list =
                rank_progress.json_list
                    \o [k \in 1..Len(others) |-> AsResult(others[k])]]_vars

\* C10: the identifier list of a written progress file never changes, nor
\* does the list of a running process, and the position never exceeds the
\* length of the (non-empty) identifier list, in memory and in the file.
C10_IdentifiersFixedPositionBounded ==
    /\ [](rank_progress.user_ids # << >> =>
             rank_progress.start_rank <= Len(rank_progress.user_ids))
    /\ []((rank_progress_file # NoFile
             /\ rank_progress_file[1].user_ids # << >>) =>
             rank_progress_file[1].start_rank
                 <= Len(rank_progress_file[1].user_ids))
    /\ [][rank_progress_file # NoFile =>
             /\ rank_progress_file' # NoFile
             /\ rank_progress_file'[1].user_ids
                    = rank_progress_file[1].user_ids]_vars
    /\ [][(pcRank \notin {"idle", "aborted"} /\ pcRank' # "idle") =>
             rank_progress'.user_ids = rank_progress.user_ids]_vars

\* the part of C10 that the code keeps
IdentifiersFixed ==
    /\ [][rank_progress_file # NoFile =>
             /\ rank_progress_file' # NoFile
             /\ rank_progress_file'[1].user_ids
                    = rank_progress_file[1].user_ids]_vars
    /\ [][(pcRank \notin {"idle", "aborted"} /\ pcRank' # "idle") =>
             rank_progress'.user_ids = rank_progress.user_ids]_vars
    /\ [](rank_progress.start_rank < end_rank)

IsPrefix(s, t) == Len(s) <= Len(t) /\ SubSeq(t, 1, Len(s)) = s

\* C11: a progress file, once written, is never removed, and every step
\* that changes it (a write of either function, in the same run or after
\* any kills and restarts) leaves the stored json_list an extension of
\* the one stored before; the stored lists of successive writes are thus
\* prefixes of one another.
C11_AppendOnlyCheckpoints ==
    /\ [][map_progress_file # NoFile =>
             /\ map_progress_file' # NoFile
             /\ IsPrefix(map_progress_file[1].json_list,
                         map_progress_file'[1].json_list)]_vars
    /\ [][rank_progress_file # NoFile =>
             /\ rank_progress_file' # NoFile
             /\ IsPrefix(rank_progress_file[1].json_list,
                         rank_progress_file'[1].json_list)]_vars

\* a rankings progress file written a second time, by a restarted run
\* that appended to what it loaded
C11_Witness ==
    /\ pcRank = "sleep"
    /\ rank_progress_file # NoFile
    /\ rank_progress_file[1].start_rank = 4 * BATCH_REQUESTS
    /\ Len(rank_progress_file[1].json_list) > Len(rank_progress_file[1].user_ids)

\* a map progress file written a second time by a restarted run
C11_WitnessMap ==
    /\ pcMap = "advance"
    /\ map_requests = 1
    /\ Len(map_progress_file[1].json_list) >= 2

\* C12: with the service returning only records after the cursor, in key
\* order, every step that rewrites the map progress file stores a cursor
\* that is not earlier than the one stored before, whether the write is of
\* the same run or of a restarted one, and with the one-second step back
\* after a full page.
C12_CursorMonotone ==
    [][(map_progress_file # NoFile /\ map_progress_file' # map_progress_file) =>
          ServiceSince(map_progress_file'[1].since)
              >= ServiceSince(map_progress_file[1].since)]_vars

\* a restarted run has rewritten the file, which holds a cursor that was
\* stepped back by one second from the last record of a full page
C12_Witness ==
    /\ pcMap = "advance"
    /\ map_requests = 1
    /\ map_progress_file # NoFile
    /\ map_progress_file[1].since \notin Keys \cup StartCursors
    /\ Len(map_progress_file[1].json_list) >= 3

\* C13: the map progress file is written only between the append of a page
\* and the next request, with that page as the last stored one; the
\* cursor it stores is the next cursor, computed from that page; and the
\* first page a restarted run receives is not among the pages it loaded.
C13_CheckpointStoresNextCursor ==
    /\ [][map_progress_file' # map_progress_file =>
             /\ pcMap = "persist" /\ pcMap' = "advance"
             /\ map_progress_file'[1].json_list = map_progress.json_list
             /\ map_progress.json_list[Len(map_progress.json_list)]
                    = info_dicts]_vars
    /\ [][map_progress_file' # map_progress_file =>
             map_progress_file'[1].since = NextSince(info_dicts)]_vars
    /\ []((pcMap = "persist" /\ map_requests = 1
             /\ map_progress_file # NoFile) =>
             \A k \in 1..Len(map_progress_file[1].json_list) :
                 map_progress_file[1].json_list[k] # info_dicts)

\* the part of C13 that the code keeps: when the file is written
CheckpointAfterAppend ==
    [][map_progress_file' # map_progress_file =>
          /\ pcMap = "persist" /\ pcMap' = "advance"
          /\ map_progress_file'[1].json_list = map_progress.json_list
          /\ map_progress.json_list[Len(map_progress.json_list)]
                 = info_dicts
          /\ map_progress_file'[1].since = since_date_str]_vars

\* where an identifier stands in the scraped list (scrape_rankings yields
\* the identifiers 1..n in rank order; positions count from 0)
IndexOf(user_id) == user_id - 1

\* C14: in every rankings progress file the stored results are of
\* identifiers between the first position and the stored position only
\* (the stored position is that of the next identifier to fetch), and no
\* run, resumed or not, holds the result of one identifier twice.
C14_PositionIsNextUnfetched ==
    /\ rank_progress_file # NoFile =>
          \A k \in 1..Len(rank_progress_file[1].json_list) :
              LET at == IndexOf(rank_progress_file[1].json_list[k].user_id)
              IN  start_rank_arg <= at /\ at < rank_progress_file[1].start_rank
    /\ \A j, k \in 1..Len(rank_progress.json_list) :
          rank_progress.json_list[j].user_id
              = rank_progress.json_list[k].user_id => j = k

\* what the code keeps instead: the stored results are of identifiers up to
\* the end of the chunk that starts at the stored position
StoredUpToChunkEnd ==
    rank_progress_file # NoFile =>
        \A k \in 1..Len(rank_progress_file[1].json_list) :
            LET at == IndexOf(rank_progress_file[1].json_list[k].user_id)
            IN  /\ start_rank_arg <= at
                /\ at < rank_progress_file[1].start_rank + BATCH_REQUESTS

\* results in memory that the progress file does not hold
Unsaved ==
    Len(rank_progress.json_list)
        - (IF rank_progress_file = NoFile THEN 0
           ELSE Len(rank_progress_file[1].json_list))

\* C15: the chunk that completes as the PROGRESS_FREQ-th, the
\* 2*PROGRESS_FREQ-th, ... of the run is followed by a write of the
\* progress file, and a running process never holds the results of more
\* than PROGRESS_FREQ chunks that the progress file lacks.
C15_SaveEveryNthChunk ==
    /\ [][(pcRank = "save" /\ pcRank' = "sleep"
              /\ (progress_counter + 1) % PROGRESS_FREQ = 0) =>
             rank_progress_file' = << rank_progress >>]_vars
    /\ [](pcRank \in {"loop", "fetching", "collect", "save", "sleep"} =>
             Unsaved <= PROGRESS_FREQ * BATCH_REQUESTS)

\* what the code does: the write follows the chunks that complete as the
\* (PROGRESS_FREQ + 1)-th, the (2*PROGRESS_FREQ + 1)-th, ... of the run
SaveAfterNPlusFirst ==
    /\ [][(pcRank = "save" /\ pcRank' = "sleep") =>
             IF progress_counter > 0 /\ progress_counter % PROGRESS_FREQ = 0
             THEN rank_progress_file' = << rank_progress >>
             ELSE rank_progress_file' = rank_progress_file]_vars
    /\ [](pcRank \in {"loop", "fetching", "collect", "save", "sleep"} =>
             Unsaved <= (PROGRESS_FREQ + 1) * BATCH_REQUESTS)

\* C16: when a response of the collected chunk is an explicit error
\* payload, the run ends there (unless the process is killed at that very
\* point): nothing is appended and the progress file is left as it was;
\* no error payload is ever among the results, in memory or in a file.
C16_ErrorPayloadAborts ==
    /\ [][(/\ pcRank = "collect"
            /\ \E k \in 1..Len(rs) : rs[k].outcome = "error"
            /\ pcRank' # "idle") =>
             /\ pcRank' = "aborted"
             /\ rank_progress' = rank_progress
             /\ rank_progress_file' = rank_progress_file]_vars
    /\ [](\A k \in 1..Len(rank_progress.json_list) :
             rank_progress.json_list[k].json # "error")
    /\ [](rank_progress_file # NoFile =>
             \A k \in 1..Len(rank_progress_file[1].json_list) :
                 rank_progress_file[1].json_list[k].json # "error")
    /\ [](rank_outfile # NoFile =>
             \A k \in 1..Len(rank_outfile[1]) :
                 rank_outfile[1][k].json # "error")

\* the fetches of the current chunk that have not ended
InFlight == { k \in 1..Len(rs) : rs[k].outcome = "pending" }

\* the results that collecting the requests reqs appends when nothing raises
AppendedOf(reqs) ==
    LET answered == SelectSeq(reqs, Answered)
    IN  [k \in 1..Len(answered) |-> AsResult(answered[k])]

\* C17: within a run the results change only in the step of the loop that
\* collects a chunk, and only when every fetch of that chunk has ended;
\* while a fetch is in flight the results do not change.
C17_JoinBeforeMutate ==
    [][(/\ pcRank \notin {"idle", "aborted"}
        /\ pcRank' # "idle"
        /\ rank_progress'.json_list # rank_progress.json_list) =>
          /\ pcRank = "collect"
          /\ InFlight = {}
          /\ IsPrefix(rank_progress.json_list, rank_progress'.json_list)]_vars

\* a full chunk whose fetches have all ended has been appended
C17_Witness ==
    /\ pcRank = "save"
    /\ Len(rs) = BATCH_REQUESTS
    /\ \A k \in 1..Len(rs) : Answered(rs[k])
    /\ Len(rank_progress.json_list) >= 2 * BATCH_REQUESTS
    /\ SubSeq(rank_progress.json_list,
              Len(rank_progress.json_list) - BATCH_REQUESTS + 1,
              Len(rank_progress.json_list)) = AppendedOf(rs)

\* C18: a new chunk's requests go out only from the head of the loop, when
\* no fetch of the previous chunk is in flight and its results are the
\* last ones appended; the requests in flight are at most BATCH_REQUESTS
\* and are of the identifiers of the one chunk at the current position.
C18_NoPipelining ==
    /\ [][(/\ rs' # rs
            /\ rs' # << >>
            /\ \A k \in 1..Len(rs') : rs'[k].outcome = "pending") =>
             /\ pcRank = "loop"
             /\ InFlight = {}
             /\ LET done == AppendedOf(rs) IN
                Len(done) <= Len(rank_progress.json_list)
                /\ SubSeq(rank_progress.json_list,
                          Len(rank_progress.json_list) - Len(done) + 1,
                          Len(rank_progress.json_list)) = done]_vars
    /\ [](Cardinality(InFlight) <= BATCH_REQUESTS)
    /\ [](InFlight # {} =>
             /\ pcRank = "fetching"
             /\ ChunkIds = Slice(rank_progress.user_ids, loop_i,
                                 loop_i + BATCH_REQUESTS))

\* the second chunk of a run is in flight, the first one fully collected
C18_Witness ==
    /\ pcRank = "fetching"
    /\ run_dispatches = 2
    /\ Cardinality(InFlight) = BATCH_REQUESTS
    /\ Len(rank_progress.json_list) = BATCH_REQUESTS

\* the records of the timeline that lie after the start cursor
Wanted ==
    { Record(timeline, i) :
        i \in { k \in 1..Len(timeline) :
                  strptime(timeline[k]) > ServiceSince(since_arg) } }

C20_PaginationTerminates ==
    /\ [][(pcMap = "advance" /\ pcMap' = "request") =>
             ServiceSince(since_date_str') # ServiceSince(since_date_str)]_vars
    /\ [](map_requests <= Len(timeline) + 1)

\* what holds instead: the run ends for the timelines in which fewer than
\* API_MAX_RESULTS records after the start cursor share an approved_date
FewerThanCapShareKey ==
    \A r \in Wanted :
        Cardinality({ q \in Wanted : q.approved_date = r.approved_date })
            < API_MAX_RESULTS

TerminatesWithoutCrowdedKey ==
    /\ [][(FewerThanCapShareKey
              /\ pcMap = "advance" /\ pcMap' = "request") =>
             ServiceSince(since_date_str') # ServiceSince(since_date_str)]_vars
    /\ [](FewerThanCapShareKey => map_requests <= Len(timeline) + 1)

====
